---- MODULE Spec2Model ----
(***************************************************************************)
(* Model of the streaming engine of the server SDK:                        *)
(*   executeStream                  (streaming.ts)                          *)
(*   AgentSession.handleSocketMessage (session.ts)                          *)
(*                                                                         *)
(* One invocation of executeStream is a record; every operator below is    *)
(* the code that runs between two suspension points of the generator       *)
(* (an await or a yield) and maps the invocation's record to its next      *)
(* record.  The actions apply these operators to the invocations in        *)
(* flight.                                                                 *)
(***************************************************************************)
EXTENDS Integers, Sequences, FiniteSets, TLC

VARIABLES
    inv,                    \* inv[f]: the executeStream invocation of flight f
    linesLeft,              \* event records the service may still send
    nFlights,               \* trigger/continue messages handled so far
    socketAbortController,  \* AgentSession field: 0 = null, f = controller of flight f
    sink,                   \* sink[f]: events passed to handlers.onEvent of flight f
    onFinishCalls,          \* onFinishCalls[f]: calls of handlers.onFinish of flight f
    messagePromise,         \* messagePromise[f]: the promise handleSocketMessage returned for flight f
    sse                     \* a toSSEStream call: its source, the stream it returned, and
                            \* the line buffer of the round trip that reads that stream

vars == <<inv, linesLeft, nFlights, socketAbortController, sink, onFinishCalls,
          messagePromise, sse>>

-----------------------------------------------------------------------------
(* Bounds *)

\* Event records the service sends over one run, all responses together.
MaxLines == 2
\* Tool calls listed by one tool-request event.
MaxCalls == 2
\* Trigger/continue messages one session handles.
MaxFlights == 2

Flights == 1..MaxFlights

\* Event records the service sends to all the flights of one session together.
SessionLines == MaxLines

-----------------------------------------------------------------------------
(* Values *)

\* The JavaScript value undefined of a string-typed variable.
Undefined == "undefined"

\* An optional array (undefined/null or an array): <<>> or <<array>>.
None == <<>>
Some(x) == <<x>>
IsSome(o) == o # <<>>
The(o) == o[1]

\* JavaScript truthiness of an optional string ('' and undefined are falsy).
Truthy(s) == s \notin {Undefined, ""}

Last(s) == s[Len(s)]

\* The handlers the caller registered (ToolHandlers, own keys of the object).
toolHandlers == {"search"}

\* A key every plain object inherits from Object.prototype: "constructor",
\* whose value is the function Object.  toolHandlers is a plain object
\* (tools ?? {}).
ObjectPrototypeKeys == {"constructor"}

\* Tool names the service may ask for: a registered one, an unregistered one
\* and one that only Object.prototype answers.
ToolNames == {"search", "confirm", "constructor"}

\* config.toolHandlers[tc.toolName], taken as a condition: a property read,
\* which consults the prototype chain.
HandlerLookup(toolName) == toolName \in toolHandlers \cup ObjectPrototypeKeys

\* PendingToolCall; the toolCallId is the position in the tool-request.
PendingToolCall(i, name) ==
    [toolCallId |-> i, toolName |-> name, outputVariable |-> <<"var", i>>,
     blockIndex |-> i, thread |-> "thread", workerId |-> "worker"]

\* The toolCalls arrays of tool-request events: up to MaxCalls calls of
\* pairwise different tools.
ToolCallLists ==
    UNION { { [i \in 1..n |-> PendingToolCall(i, names[i])] :
                names \in { s \in [1..n -> ToolNames] :
                              \A i, j \in 1..n : i # j => s[i] # s[j] } } :
            n \in 0..MaxCalls }

StartEvent(id) == [type |-> "start", executionId |-> id]
ToolRequestEvent(calls) == [type |-> "tool-request", toolCalls |-> calls]
FinishEvent(reason) == [type |-> "finish", finishReason |-> reason]
TextDeltaEvent == [type |-> "text-delta"]
ResourceUpdateEvent(name) == [type |-> "resource-update", name |-> name, value |-> "v"]

\* The names of the session's resources (the keys of resourceMap): the stream
\* names a resource the session has, "X", and one it does not have, "Y".
resourceMap == {"X"}

\* The valid events a response stream may carry (safeParseStreamEvent succeeds).
StreamEvents ==
    {StartEvent("e1"), TextDeltaEvent, ResourceUpdateEvent("X"), ResourceUpdateEvent("Y"),
     FinishEvent("stop"), FinishEvent("tool-calls")}
    \cup {ToolRequestEvent(c) : c \in ToolCallLists}

\* The events the streams of a session carry in this model: the event the
\* session has a callback for, a finish, and of the tool-requests one with a
\* local call and one with an external call.
SessionStreamEvents ==
    {ResourceUpdateEvent("X"), FinishEvent("stop"),
     ToolRequestEvent(<<PendingToolCall(1, "search")>>),
     ToolRequestEvent(<<PendingToolCall(1, "confirm")>>)}

\* The events the engine makes itself.
StopFinish == [type |-> "finish", finishReason |-> "stop"]
PauseFinish(id) == [type |-> "finish", finishReason |-> "client-tool-calls", executionId |-> id]
ApiErrorEvent(status, message) ==
    [type |-> "error", errorType |-> "api", status |-> status, message |-> message]
InternalErrorEvent(msg) == [type |-> "error", errorType |-> "internal", message |-> msg]
ToolOutputAvailable(tr) ==
    [type |-> "tool-output-available", toolCallId |-> tr.toolCallId,
     output |-> IF "result" \in DOMAIN tr THEN tr.result ELSE Undefined]
ToolOutputError(tr) == [type |-> "tool-output-error", toolCallId |-> tr.toolCallId, error |-> tr.error]
ClientToolRequest(id, calls, results) ==
    [type |-> "client-tool-request", executionId |-> id, toolCalls |-> calls,
     serverToolResults |-> results]

\* StreamExecutionPayload of a first call and of a continuation.
Payloads ==
    {[executionId |-> Undefined, toolResults |-> None],
     [executionId |-> "e0", toolResults |-> Some(<<[toolCallId |-> 9, toolName |-> "confirm", result |-> "r"]>>)]}

\* buildBody of WorkersApi.execute, applied to the state executeStream gives
\* it for a fetch.
WorkersExecuteBody(state) ==
    IF ~Truthy(state.executionId)
    THEN [type |-> "start", input |-> "input"]
    ELSE [type |-> "continue", executionId |-> state.executionId,
          toolResults |-> state.toolResults]

\* buildBody of WorkersApi.continue(agentId, executionId, toolResults), whose
\* payload is {executionId, toolResults}: execId ?? executionId and
\* results ?? toolResults.
WorkersContinueBody(payload, state) ==
    [type |-> "continue",
     executionId |-> IF state.executionId # Undefined THEN state.executionId
                     ELSE payload.executionId,
     toolResults |-> IF IsSome(state.toolResults) THEN state.toolResults
                     ELSE payload.toolResults]

\* An object with no own key, and the object o with the key k set to v.
EmptyObject == [k \in {} |-> Undefined]
SetKey(o, k, v) == [x \in (DOMAIN o) \cup {k} |-> IF x = k THEN v ELSE o[x]]

\* buildBody of AgentSession.executeStream.  The payload of a trigger message
\* has triggerName and input and gives executeStream no executionId; the
\* payload of a continue message has executionId and toolResults.  A key is
\* set when its value is not undefined.
SessionBody(payload, state) ==
    LET isTrigger == payload.executionId = Undefined
        b1 == IF isTrigger THEN SetKey(EmptyObject, "triggerName", "trigger") ELSE EmptyObject
        b2 == IF isTrigger THEN SetKey(b1, "input", "input") ELSE b1
        b3 == IF state.executionId # Undefined
              THEN SetKey(b2, "executionId", state.executionId) ELSE b2
    IN  IF IsSome(state.toolResults) THEN SetKey(b3, "toolResults", state.toolResults) ELSE b3

\* pendingToolCalls.filter((tc) => config.toolHandlers[tc.toolName])
RECURSIVE ServerTools(_)
ServerTools(calls) ==
    IF calls = <<>> THEN <<>>
    ELSE IF HandlerLookup(Head(calls).toolName)
         THEN <<Head(calls)>> \o ServerTools(Tail(calls))
         ELSE ServerTools(Tail(calls))

\* pendingToolCalls.filter((tc) => !config.toolHandlers[tc.toolName])
RECURSIVE ClientTools(_)
ClientTools(calls) ==
    IF calls = <<>> THEN <<>>
    ELSE IF ~HandlerLookup(Head(calls).toolName)
         THEN <<Head(calls)>> \o ClientTools(Tail(calls))
         ELSE ClientTools(Tail(calls))

-----------------------------------------------------------------------------
(* executeStream *)

\* An invocation that was not made yet.
Idle ==
    [pc |-> "idle", exit |-> "", aborted |-> FALSE, abortedAt |-> "",
     onResourceUpdate |-> FALSE,
     toolResults |-> None, executionId |-> Undefined, continueLoop |-> TRUE,
     pendingToolCalls |-> None, lines |-> <<>>,
     serverTools |-> <<>>, clientTools |-> <<>>, settled |-> <<>>, emitted |-> 0,
     out |-> <<>>, requests |-> <<>>, handlerCalls |-> 0, resourceUpdates |-> <<>>,
     forwardedFinish |-> 0,
     payload |-> [executionId |-> Undefined, toolResults |-> None],
     resourceEvents |-> 0, onUpdateCalls |-> <<>>, lastAwait |-> "",
     finishes |-> <<>>, completed |-> <<>>, toolRequests |-> <<>>]

\* The invocation at its first statement.  out, requests, handlerCalls and
\* resourceUpdates record what the invocation did: the events it yielded, the
\* states it gave buildBody for its fetches, the handlers it called, the
\* onResourceUpdate calls; forwardedFinish counts the finish events it
\* forwarded from a stream; exit names the statement that ended it and
\* abortedAt the point the invocation was at when its signal was aborted
\* ("call": the signal was aborted when the invocation was made); payload
\* keeps the payload of the call, resourceEvents counts the resource-update
\* events parsed from the streams and onUpdateCalls records the onUpdate
\* calls made on the session's resources; lastAwait names how the last
\* awaited fetch or read settled; finishes lists the finish events parsed
\* from the streams, each with the pendingToolCalls of its round trip at
\* that point and whether it was forwarded; completed lists the local calls
\* of the batch (their positions in serverTools) in the order their
\* handlers settled; toolRequests lists the toolCalls of the tool-request
\* events parsed from the stream of the current round trip.
\* The callback onResourceUpdate, when there is one, is the session's
\* (name, value) => this.handleResourceUpdate(name, value): AgentSession
\* supplies it, WorkersApi supplies none.
ExecuteStream(payload, hasOnResourceUpdate, isAborted) ==
    [Idle EXCEPT !.pc = "loop", !.aborted = isAborted,
                 !.payload = payload,
                 !.abortedAt = IF isAborted THEN "call" ELSE "",
                 !.onResourceUpdate = hasOnResourceUpdate,
                 !.toolResults = payload.toolResults,
                 !.executionId = payload.executionId]

Running(e) == e.pc \notin {"idle", "done", "threw"}

\* AbortController.abort() as the invocation's signal sees it: aborted is
\* set and stays set.
SignalAbort(e) ==
    IF e.aborted THEN e ELSE [e EXCEPT !.aborted = TRUE, !.abortedAt = e.pc]

\* yield ev
Yield(e, ev) == [e EXCEPT !.out = Append(@, ev)]
\* return (or the end of the generator's body)
Return(e, how) == [e EXCEPT !.pc = "done", !.exit = how]
\* throw err
Throw(e) == [e EXCEPT !.pc = "threw", !.exit = "throw"]

\* LoopTop without the cancellation check at the head of the loop.
LoopTopUnchecked(e) ==
    IF ~e.continueLoop THEN Return(e, "end")
    ELSE [e EXCEPT !.pc = "fetch",
                   !.requests = Append(@, [executionId |-> e.executionId,
                                            toolResults |-> e.toolResults])]

\* The head of the outer loop up to the await of fetch.
LoopTop(e) ==
    IF ~e.continueLoop THEN Return(e, "end")
    ELSE IF e.aborted THEN Return(Yield(e, StopFinish), "stop")
    ELSE [e EXCEPT !.pc = "fetch",
                   !.requests = Append(@, [executionId |-> e.executionId,
                                            toolResults |-> e.toolResults])]

\* What the awaited fetch can give: once the signal is aborted a rejection,
\* with an error isAbortError recognises or with another one; else a response
\* or a transport failure.
FetchOutcomes(e) ==
    IF e.aborted THEN {"abort-error", "error"}
    ELSE {"ok", "not-ok", "not-found", "no-body", "error"}

\* response.status: two non-success statuses, and success.
ResponseStatus(outcome) ==
    CASE outcome = "not-ok" -> 500
      [] outcome = "not-found" -> 404
      [] OTHER -> 200

\* parseApiError(response, errorContext): the message of the structured
\* error body of the response.
ParseApiError(outcome) == [message |-> <<"message of", ResponseStatus(outcome)>>]

\* FetchSettled that goes on to the next pass of the outer loop after the
\* error event of a non-success status.
FetchSettledRetry(e, outcome) ==
    LET e1 == [e EXCEPT !.lastAwait = outcome] IN
    CASE outcome = "abort-error" -> Return(Yield(e1, StopFinish), "stop")
      [] outcome = "error" -> Throw(e1)
      [] outcome \in {"not-ok", "not-found"} ->
            [Yield(e1, ApiErrorEvent(ResponseStatus(outcome), ParseApiError(outcome).message))
               EXCEPT !.pc = "loop"]
      [] outcome = "no-body" ->
            Return(Yield(e1, InternalErrorEvent("Response body is not readable")), "no-body")
      [] outcome = "ok" ->
            [e1 EXCEPT !.toolResults = None, !.pendingToolCalls = None, !.toolRequests = <<>>,
                       !.lines = <<>>, !.pc = "read"]

\* FetchSettled whose catch turns every failure into an event.
FetchSettledSwallow(e, outcome) ==
    LET e1 == [e EXCEPT !.lastAwait = outcome] IN
    CASE outcome = "abort-error" -> Return(Yield(e1, StopFinish), "stop")
      [] outcome = "error" -> Return(Yield(e1, InternalErrorEvent("Unknown error")), "error")
      [] outcome \in {"not-ok", "not-found"} ->
            Return(Yield(e1, ApiErrorEvent(ResponseStatus(outcome), ParseApiError(outcome).message)),
                   "api-error")
      [] outcome = "no-body" ->
            Return(Yield(e1, InternalErrorEvent("Response body is not readable")), "no-body")
      [] outcome = "ok" ->
            [e1 EXCEPT !.toolResults = None, !.pendingToolCalls = None, !.toolRequests = <<>>,
                       !.lines = <<>>, !.pc = "read"]

\* From the settled fetch to the head of the read loop.
FetchSettled(e, outcome) ==
    LET e1 == [e EXCEPT !.lastAwait = outcome] IN
    CASE outcome = "abort-error" -> Return(Yield(e1, StopFinish), "stop")
      [] outcome = "error" -> Throw(e1)
      [] outcome \in {"not-ok", "not-found"} ->
            Return(Yield(e1, ApiErrorEvent(ResponseStatus(outcome), ParseApiError(outcome).message)),
                   "api-error")
      [] outcome = "no-body" ->
            Return(Yield(e1, InternalErrorEvent("Response body is not readable")), "no-body")
      [] outcome = "ok" ->
            [e1 EXCEPT !.toolResults = None, !.pendingToolCalls = None, !.toolRequests = <<>>,
                       !.lines = <<>>, !.pc = "read"]

\* The partition of the pending calls and the start of every local handler.
StartHandlers(e) ==
    LET serverTools == ServerTools(The(e.pendingToolCalls))
    IN  [e EXCEPT !.serverTools = serverTools,
                  !.clientTools = ClientTools(The(e.pendingToolCalls)),
                  !.settled = [i \in 1..Len(serverTools) |-> "pending"],
                  !.completed = <<>>,
                  !.emitted = 0,
                  !.handlerCalls = @ + Len(serverTools),
                  !.pc = "handlers"]

\* After the read loop: the cancellation check, then the pending tool calls.
StreamClosed(e) ==
    IF e.aborted THEN Return(Yield(e, StopFinish), "stop")
    ELSE IF IsSome(e.pendingToolCalls) /\ Len(The(e.pendingToolCalls)) > 0
         THEN StartHandlers(e)
    ELSE Return([e EXCEPT !.continueLoop = FALSE], "end")

\* handleResourceUpdate without the test that the session has the resource.
HandleResourceUpdateAnyName(e, name, value) ==
    [e EXCEPT !.onUpdateCalls =
                 Append(@, [resource |-> name, value |-> value, yielded |-> Len(e.out)])]

\* AgentSession.handleResourceUpdate: the onUpdate call on the resource of
\* that name, if the session has one.  `yielded` notes how many events the
\* invocation had yielded when the call was made.  What the resource does
\* with the value is the resource's own; the call returns.
HandleResourceUpdate(e, name, value) ==
    IF name \in resourceMap
    THEN [e EXCEPT !.onUpdateCalls =
                      Append(@, [resource |-> name, value |-> value, yielded |-> Len(e.out)])]
    ELSE e

\* if (event.type === 'resource-update' && config.onResourceUpdate)
\*     config.onResourceUpdate(event.name, event.value)
OnResourceUpdate(e, event) ==
    IF e.onResourceUpdate
    THEN HandleResourceUpdate(
             [e EXCEPT !.resourceUpdates = Append(@, [name |-> event.name, value |-> event.value])],
             event.name, event.value)
    ELSE e

\* A finish event met by the loop over the lines.
ReceivedFinish(event, e, forwarded) ==
    [reason |-> event.finishReason, captured |-> e.pendingToolCalls, forwarded |-> forwarded]

\* ProcessLine that adopts the identifier of a start event only while it
\* carries none.
ProcessLineFirstIdOnly(e) ==
    LET event == Head(e.lines)
        rest == Tail(e.lines)
        e1 == [e EXCEPT !.lines = rest, !.pc = IF rest = <<>> THEN "read" ELSE "line"]
        e2 == IF event.type = "start" /\ Truthy(event.executionId) /\ ~Truthy(e.executionId)
              THEN [e1 EXCEPT !.executionId = event.executionId]
              ELSE e1
    IN  IF event.type = "tool-request"
        THEN [e2 EXCEPT !.pendingToolCalls = Some(event.toolCalls),
                        !.toolRequests = Append(@, event.toolCalls)]
        ELSE IF event.type = "finish"
        THEN IF event.finishReason = "tool-calls" /\ IsSome(e2.pendingToolCalls)
             THEN [e2 EXCEPT !.finishes = Append(@, ReceivedFinish(event, e2, FALSE))]
             ELSE [Yield(e2, event) EXCEPT !.continueLoop = FALSE,
                                           !.forwardedFinish = @ + 1,
                                           !.finishes = Append(@, ReceivedFinish(event, e2, TRUE))]
        ELSE IF event.type = "resource-update"
        THEN Yield(OnResourceUpdate([e2 EXCEPT !.resourceEvents = @ + 1], event), event)
        ELSE Yield(e2, event)

\* ProcessLine that also forwards the tool-request it captures.
ProcessLineForwardAll(e) ==
    LET event == Head(e.lines)
        rest == Tail(e.lines)
        e1 == [e EXCEPT !.lines = rest, !.pc = IF rest = <<>> THEN "read" ELSE "line"]
        e2 == IF event.type = "start" /\ Truthy(event.executionId)
              THEN [e1 EXCEPT !.executionId = event.executionId]
              ELSE e1
    IN  IF event.type = "tool-request"
        THEN Yield([e2 EXCEPT !.pendingToolCalls = Some(event.toolCalls),
                        !.toolRequests = Append(@, event.toolCalls)], event)
        ELSE IF event.type = "finish"
        THEN IF event.finishReason = "tool-calls" /\ IsSome(e2.pendingToolCalls)
             THEN [e2 EXCEPT !.finishes = Append(@, ReceivedFinish(event, e2, FALSE))]
             ELSE [Yield(e2, event) EXCEPT !.continueLoop = FALSE,
                                           !.forwardedFinish = @ + 1,
                                           !.finishes = Append(@, ReceivedFinish(event, e2, TRUE))]
        ELSE IF event.type = "resource-update"
        THEN Yield(OnResourceUpdate([e2 EXCEPT !.resourceEvents = @ + 1], event), event)
        ELSE Yield(e2, event)

\* ProcessLine whose tool-request adds its calls to the pending ones.
ProcessLineExtend(e) ==
    LET event == Head(e.lines)
        rest == Tail(e.lines)
        e1 == [e EXCEPT !.lines = rest, !.pc = IF rest = <<>> THEN "read" ELSE "line"]
        e2 == IF event.type = "start" /\ Truthy(event.executionId)
              THEN [e1 EXCEPT !.executionId = event.executionId]
              ELSE e1
    IN  IF event.type = "tool-request"
        THEN [e2 EXCEPT !.pendingToolCalls =
                            IF IsSome(@) THEN Some(The(@) \o event.toolCalls)
                            ELSE Some(event.toolCalls),
                        !.toolRequests = Append(@, event.toolCalls)]
        ELSE IF event.type = "finish"
        THEN IF event.finishReason = "tool-calls" /\ IsSome(e2.pendingToolCalls)
             THEN [e2 EXCEPT !.finishes = Append(@, ReceivedFinish(event, e2, FALSE))]
             ELSE [Yield(e2, event) EXCEPT !.continueLoop = FALSE,
                                           !.forwardedFinish = @ + 1,
                                           !.finishes = Append(@, ReceivedFinish(event, e2, TRUE))]
        ELSE IF event.type = "resource-update"
        THEN Yield(OnResourceUpdate([e2 EXCEPT !.resourceEvents = @ + 1], event), event)
        ELSE Yield(e2, event)

\* The body of the loop over the lines for one valid event record.
ProcessLine(e) ==
    LET event == Head(e.lines)
        rest == Tail(e.lines)
        e1 == [e EXCEPT !.lines = rest, !.pc = IF rest = <<>> THEN "read" ELSE "line"]
        e2 == IF event.type = "start" /\ Truthy(event.executionId)
              THEN [e1 EXCEPT !.executionId = event.executionId]
              ELSE e1
    IN  IF event.type = "tool-request"
        THEN [e2 EXCEPT !.pendingToolCalls = Some(event.toolCalls),
                        !.toolRequests = Append(@, event.toolCalls)]
        ELSE IF event.type = "finish"
        THEN IF event.finishReason = "tool-calls" /\ IsSome(e2.pendingToolCalls)
             THEN [e2 EXCEPT !.finishes = Append(@, ReceivedFinish(event, e2, FALSE))]
             ELSE [Yield(e2, event) EXCEPT !.continueLoop = FALSE,
                                           !.forwardedFinish = @ + 1,
                                           !.finishes = Append(@, ReceivedFinish(event, e2, TRUE))]
        ELSE IF event.type = "resource-update"
        THEN Yield(OnResourceUpdate([e2 EXCEPT !.resourceEvents = @ + 1], event), event)
        ELSE Yield(e2, event)

\* The loop over the lines from its next line to its next yield, where the
\* generator is suspended (pc "line"), or to the end of the lines (pc "read").
RECURSIVE RunLines(_)
RunLines(e) ==
    LET e2 == ProcessLine(e)
    IN  IF Len(e2.out) > Len(e.out) \/ e2.lines = <<>> THEN e2 ELSE RunLines(e2)

\* What one pass of the read loop can meet; a chunk is the event records of
\* the complete lines it ends.  A signal aborted before the pass is met by the
\* check at its head ("abort-error"); a signal aborted while reader.read() is
\* awaited rejects the read, with an error isAbortError recognises or with
\* another one.
ReadOutcomes(e, chunks) ==
    IF e.aborted
    THEN IF e.abortedAt = "read" THEN {[kind |-> "abort-error"], [kind |-> "error"]}
         ELSE {[kind |-> "abort-error"]}
    ELSE {[kind |-> "done"], [kind |-> "error"]}
         \cup {[kind |-> "chunk", lines |-> c] : c \in chunks}

\* Read that starts the tool handling as soon as a chunk has brought a
\* non-empty tool-request, without reading the stream to its end.
ReadEager(e, r) ==
    LET e1 == [e EXCEPT !.lastAwait = r.kind] IN
    CASE r.kind = "abort-error" -> Return(Yield(e1, StopFinish), "stop")
      [] r.kind = "error" -> Throw(e1)
      [] r.kind = "done" -> StreamClosed(e1)
      [] r.kind = "chunk" ->
            LET e2 == RunLines([e1 EXCEPT !.lines = r.lines]) IN
            IF /\ e2.pc = "read" /\ ~e2.aborted
               /\ IsSome(e2.pendingToolCalls) /\ The(e2.pendingToolCalls) # <<>>
            THEN StartHandlers(e2) ELSE e2

\* One pass of the read loop: the cancellation check, the read, and for a
\* chunk the split into lines and the loop over them up to its first yield.
Read(e, r) ==
    LET e1 == [e EXCEPT !.lastAwait = r.kind] IN
    CASE r.kind = "abort-error" -> Return(Yield(e1, StopFinish), "stop")
      [] r.kind = "error" -> Throw(e1)
      [] r.kind = "done" -> StreamClosed(e1)
      [] r.kind = "chunk" -> RunLines([e1 EXCEPT !.lines = r.lines])

\* The ToolResult of a local call whose handler returned or raised: the
\* result, or as error the message of the Error raised ("failed", or the
\* empty message of "raised-empty").
ToolResult(tc, outcome) ==
    CASE outcome = "returned" ->
            [toolCallId |-> tc.toolCallId, toolName |-> tc.toolName, result |-> "r",
             outputVariable |-> tc.outputVariable, blockIndex |-> tc.blockIndex,
             thread |-> tc.thread, workerId |-> tc.workerId]
      [] outcome = "raised" ->
            [toolCallId |-> tc.toolCallId, toolName |-> tc.toolName, error |-> "failed",
             outputVariable |-> tc.outputVariable, blockIndex |-> tc.blockIndex,
             thread |-> tc.thread, workerId |-> tc.workerId]
      [] outcome = "raised-empty" ->
            [toolCallId |-> tc.toolCallId, toolName |-> tc.toolName, error |-> "",
             outputVariable |-> tc.outputVariable, blockIndex |-> tc.blockIndex,
             thread |-> tc.thread, workerId |-> tc.workerId]

\* The ToolResult executeWorkerStream builds for the same call and outcome.
WorkerToolResult(tc, outcome) ==
    CASE outcome = "returned" ->
            [toolCallId |-> tc.toolCallId, toolName |-> tc.toolName, result |-> "r",
             outputVariable |-> tc.outputVariable, blockIndex |-> tc.blockIndex,
             thread |-> tc.thread]
      [] outcome = "raised" ->
            [toolCallId |-> tc.toolCallId, toolName |-> tc.toolName, error |-> "failed",
             outputVariable |-> tc.outputVariable, blockIndex |-> tc.blockIndex,
             thread |-> tc.thread]
      [] outcome = "raised-empty" ->
            [toolCallId |-> tc.toolCallId, toolName |-> tc.toolName, error |-> "",
             outputVariable |-> tc.outputVariable, blockIndex |-> tc.blockIndex,
             thread |-> tc.thread]

\* How a handler settles: it returns, it raises an Error with a message, it
\* raises an Error whose message is empty.
HandlerOutcomes == {"returned", "raised", "raised-empty"}

\* The handler of local call i settles.
HandlerSettled(e, i, outcome) ==
    [e EXCEPT !.settled[i] = outcome, !.completed = Append(@, i)]

AllSettled(e) == \A i \in 1..Len(e.settled) : e.settled[i] # "pending"

\* serverResults in the order the handlers settled.
ServerResultsByCompletion(e) ==
    [k \in 1..Len(e.serverTools) |->
        ToolResult(e.serverTools[e.completed[k]], e.settled[e.completed[k]])]

\* serverResults: what Promise.all gives once every handler has settled.
ServerResults(e) ==
    [i \in 1..Len(e.serverTools) |-> ToolResult(e.serverTools[i], e.settled[i])]

\* One pass of the loop over serverResults.
YieldToolOutput(e) ==
    LET tr == ServerResults(e)[e.emitted + 1]
    IN  [Yield(e, IF "error" \in DOMAIN tr /\ Truthy(tr.error)
                  THEN ToolOutputError(tr)
                  ELSE ToolOutputAvailable(tr))
         EXCEPT !.emitted = @ + 1]

\* After the tool outputs: pause for the external calls, or carry the results
\* to the next pass of the outer loop.
AfterToolOutputs(e) ==
    IF Len(e.clientTools) > 0
    THEN IF ~Truthy(e.executionId)
         THEN Return(Yield(e, InternalErrorEvent("Missing executionId for client-tool-request")),
                     "missing-id")
         ELSE [Yield(e, ClientToolRequest(e.executionId, e.clientTools,
                                          IF Len(e.serverTools) > 0
                                          THEN Some(ServerResults(e)) ELSE None))
               EXCEPT !.pc = "pause"]
    ELSE [e EXCEPT !.toolResults = Some(ServerResults(e)), !.pc = "loop"]

\* The finish that follows the client-tool-request.
YieldPauseFinish(e) ==
    Return([Yield(e, PauseFinish(e.executionId)) EXCEPT !.continueLoop = FALSE], "pause")

-----------------------------------------------------------------------------
(* toSSEStream, and the text of a response body *)

\* Text is a sequence of pieces: the two halves of the prefix 'data: ', the
\* two halves of the JSON text of a value, the sentinel text '[DONE]' and the
\* line feed.  A chunk of the stream can end between any two pieces.
Ch(c) == [ch |-> c]
LF == Ch("LF")

\* JSON.stringify of an event, which is a JSON value: its text.
JSONStringify(v) == <<[ch |-> "{", json |-> v], [ch |-> "}", json |-> v]>>

\* JSON.parse: the value of a complete JSON text; anything else raises.
JSONParse(text) ==
    IF /\ Len(text) = 2
       /\ text[1] = [ch |-> "{", json |-> text[1].json]
       /\ text[2] = [ch |-> "}", json |-> text[1].json]
    THEN [ok |-> TRUE, value |-> text[1].json]
    ELSE [ok |-> FALSE]

\* safeParseStreamEvent: succeeds on the events of the protocol, which all
\* carry their type.
SafeParseStreamEvent(v) == [success |-> "type" \in DOMAIN v, data |-> v]

\* `data: ${JSON.stringify(event)}\n\n`
SSEData(event) == <<Ch("da"), Ch("ta: ")>> \o JSONStringify(event) \o <<LF, LF>>

\* 'data: [DONE]\n\n'
SSEDone == <<Ch("da"), Ch("ta: "), Ch("[DONE]"), LF, LF>>

\* toSSEStream(events) at its call: `events` is what the source yields and
\* `fails` whether the source raises a failure after them.  taken counts the
\* events taken from the source, chunks are the chunks enqueued, closes the
\* calls of controller.close(), atClose the number of chunks at the first
\* of them, wire the text enqueued and not yet read by the reader of the
\* stream, buffer the line buffer of that reader.
ToSSEStream(events, fails) ==
    [events |-> events, fails |-> fails, taken |-> 0,
     chunks |-> <<>>, closes |-> 0, atClose |-> 0, wire |-> <<>>, buffer |-> <<>>]

\* controller.enqueue(encoder.encode(text))
Enqueue(t, text) == [t EXCEPT !.chunks = Append(@, text), !.wire = @ \o text]

\* controller.close()
Close(t) == [t EXCEPT !.closes = @ + 1,
                      !.atClose = IF t.closes = 0 THEN Len(t.chunks) ELSE @]

\* One pass of `for await (const event of events)`.
SSEEvent(t) == [Enqueue(t, SSEData(t.events[t.taken + 1])) EXCEPT !.taken = @ + 1]

\* An end of the source that closes without the sentinel.
SSEEndNoSentinel(t) == Close(t)

\* The source is exhausted: the sentinel and the close.
SSEEnd(t) == Close(Enqueue(t, SSEDone))

\* A catch that goes on to the sentinel.
SSECatchThenDone(t) ==
    Close(Enqueue(Enqueue(t, SSEData(InternalErrorEvent("Unknown error"))),
                  <<Ch("da"), Ch("ta: "), Ch("[DONE]"), LF, LF>>))

\* The source raised: the catch.
SSECatch(t) == Close(Enqueue(t, SSEData(InternalErrorEvent("Unknown error"))))

\* buffer.split('\n')
RECURSIVE Split(_)
Split(text) ==
    IF \A i \in 1..Len(text) : text[i] # LF THEN <<text>>
    ELSE LET i == CHOOSE k \in 1..Len(text) :
                     text[k] = LF /\ \A m \in 1..(k - 1) : text[m] # LF
         IN  <<SubSeq(text, 1, i - 1)>> \o Split(SubSeq(text, i + 1, Len(text)))

\* line.startsWith('data: ')
StartsWithData(line) == Len(line) >= 2 /\ line[1] = Ch("da") /\ line[2] = Ch("ta: ")

\* The event of one line, if the line carries a valid one: <<event>> or <<>>.
LineEvent(line) ==
    IF StartsWithData(line) /\ line # <<Ch("da"), Ch("ta: "), Ch("[DONE]")>>
    THEN LET parsed == JSONParse(SubSeq(line, 3, Len(line)))
         IN  IF parsed.ok /\ SafeParseStreamEvent(parsed.value).success
             THEN <<SafeParseStreamEvent(parsed.value).data>>
             ELSE <<>>
    ELSE <<>>

\* The loop over the lines, left at the first data line that gives no event.
RECURSIVE LinesEventsUntilSkipped(_)
LinesEventsUntilSkipped(lines) ==
    IF lines = <<>> THEN <<>>
    ELSE IF StartsWithData(Head(lines)) /\ LineEvent(Head(lines)) = <<>> THEN <<>>
    ELSE LineEvent(Head(lines)) \o LinesEventsUntilSkipped(Tail(lines))

RECURSIVE LinesEvents(_)
LinesEvents(lines) ==
    IF lines = <<>> THEN <<>> ELSE LineEvent(Head(lines)) \o LinesEvents(Tail(lines))

\* A decoder that holds no fragment back: every fragment is taken as a line.
DecodeChunkNoHoldBack(buffer, value) ==
    [buffer |-> <<>>, events |-> LinesEvents(Split(buffer \o value))]

\* The chunk's text appended to the buffer, the split into lines, the last
\* fragment held back as the new buffer, and the events of the other lines.
DecodeChunk(buffer, value) ==
    LET lines == Split(buffer \o value)
    IN  [buffer |-> Last(lines), events |-> LinesEvents(SubSeq(lines, 1, Len(lines) - 1))]

-----------------------------------------------------------------------------
(* AgentSession.handleSocketMessage *)

\* handleSocketMessage without the abort of the controller it holds.
ControllerAbortSkipped(invs, controller) == invs

\* this.socketAbortController?.abort(): the signal of the flight whose
\* controller the field holds becomes aborted.
ControllerAbort(invs, controller) ==
    IF controller = 0 THEN invs ELSE [invs EXCEPT ![controller] = SignalAbort(@)]

\* The messages that start the flight after n earlier ones, as the payload
\* they give executeStream (trigger: no executionId; continue: the executionId
\* and toolResults sent).  The first message of a session is either; the
\* later ones are continue messages: a trigger takes the same path through
\* handleSocketMessage and differs in the payload alone.
SessionRequests(n) ==
    IF n = 0 THEN Payloads ELSE {p \in Payloads : p.executionId = "e0"}

\* Consume without the break at the head of the loop body: every event the
\* generator yields goes to onEvent.
ConsumeUnchecked(f, e, e2) ==
    LET yielded == Len(e2.out) > Len(e.out)
        delivered ==
            IF e2.pc = "threw"
            THEN IF ~e2.aborted THEN <<InternalErrorEvent("Unknown error")>> ELSE <<>>
            ELSE IF yielded THEN <<Last(e2.out)>> ELSE <<>>
    IN  /\ inv' = [inv EXCEPT ![f] = e2]
        /\ sink' = [sink EXCEPT ![f] = @ \o delivered]
        /\ onFinishCalls' =
              [onFinishCalls EXCEPT ![f] = IF e2.pc = "done" /\ ~e2.aborted THEN @ + 1 ELSE @]
        /\ messagePromise' = [messagePromise EXCEPT ![f] = IF Running(e2) THEN @ ELSE "fulfilled"]

\* Consume with a catch that does not look at the signal: every failure
\* becomes an internal-error event.
ConsumeCatchUnguarded(f, e, e2) ==
    LET yielded == Len(e2.out) > Len(e.out)
        broke == yielded /\ e2.aborted
        e3 == IF broke /\ Running(e2) THEN Return(e2, "return") ELSE e2
        delivered ==
            IF e2.pc = "threw" THEN <<InternalErrorEvent("Unknown error")>>
            ELSE IF yielded /\ ~broke THEN <<Last(e2.out)>> ELSE <<>>
    IN  /\ inv' = [inv EXCEPT ![f] = e3]
        /\ sink' = [sink EXCEPT ![f] = @ \o delivered]
        /\ onFinishCalls' =
              [onFinishCalls EXCEPT ![f] = IF e3.pc = "done" /\ ~e3.aborted THEN @ + 1 ELSE @]
        /\ messagePromise' = [messagePromise EXCEPT ![f] = IF Running(e3) THEN @ ELSE "fulfilled"]

\* The body of `for await (const event of events)` and what follows it, for
\* one step of the flight's generator from e to e2: the break when the
\* flight's signal is aborted, else onEvent; onFinish after the loop; the
\* catch that turns a failure into an internal-error event.  The callbacks
\* onEvent and onFinish are the caller's and return normally, so the promise
\* of handleSocketMessage is fulfilled when the generator has ended.
Consume(f, e, e2) ==
    LET yielded == Len(e2.out) > Len(e.out)
        broke == yielded /\ e2.aborted
        e3 == IF broke /\ Running(e2) THEN Return(e2, "return") ELSE e2
        delivered ==
            IF e2.pc = "threw"
            THEN IF ~e2.aborted THEN <<InternalErrorEvent("Unknown error")>> ELSE <<>>
            ELSE IF yielded /\ ~broke THEN <<Last(e2.out)>> ELSE <<>>
    IN  /\ inv' = [inv EXCEPT ![f] = e3]
        /\ sink' = [sink EXCEPT ![f] = @ \o delivered]
        /\ onFinishCalls' =
              [onFinishCalls EXCEPT ![f] = IF e3.pc = "done" /\ ~e3.aborted THEN @ + 1 ELSE @]
        /\ messagePromise' = [messagePromise EXCEPT ![f] = IF Running(e3) THEN @ ELSE "fulfilled"]

-----------------------------------------------------------------------------
(* Actions *)

\* No message was handled: invocation 1 is iterated by a plain caller of
\* executeStream, which takes every event.
Direct == nFlights = 0

\* Chunks the service can still send: 1..n event records.
Chunks(events, n) == UNION {[1..k -> events] : k \in 1..n}

\* The generator of flight f moves to e2; n event records remain to be sent.
Advance(f, e2, n) ==
    /\ linesLeft' = n
    /\ UNCHANGED <<nFlights, socketAbortController, sse>>
    /\ IF Direct
       THEN inv' = [inv EXCEPT ![f] = e2] /\ UNCHANGED <<sink, onFinishCalls, messagePromise>>
       ELSE Consume(f, inv[f], e2)

\* The caller's signal is aborted while invocation 1 runs.
Abort ==
    /\ Direct /\ Running(inv[1]) /\ ~inv[1].aborted
    /\ inv' = [inv EXCEPT ![1] = SignalAbort(@)]
    /\ UNCHANGED <<linesLeft, nFlights, socketAbortController, sink, onFinishCalls,
                   messagePromise, sse>>

\* Stop that also clears the controller field.
StopAndClear ==
    /\ inv' = ControllerAbort(inv, socketAbortController)
    /\ socketAbortController' = 0
    /\ UNCHANGED <<linesLeft, nFlights, sink, onFinishCalls, messagePromise, sse>>

\* handleSocketMessage({type: 'stop'}): the abort of the controller the field
\* holds, if it holds one, and nothing else.
Stop ==
    /\ inv' = ControllerAbort(inv, socketAbortController)
    /\ UNCHANGED <<linesLeft, nFlights, socketAbortController, sink, onFinishCalls,
                   messagePromise, sse>>

\* handleSocketMessage of a trigger or continue message, up to its first
\* await: the generator runs to the await of its first fetch.
Message ==
    /\ nFlights < MaxFlights
    /\ \E p \in SessionRequests(nFlights) :
          LET f == nFlights + 1 IN
          /\ inv' = [ControllerAbort(inv, socketAbortController)
                        EXCEPT ![f] = LoopTop(ExecuteStream(p, TRUE, FALSE))]
          /\ socketAbortController' = f
          /\ nFlights' = f
          /\ messagePromise' = [messagePromise EXCEPT ![f] = "pending"]
    /\ UNCHANGED <<linesLeft, sink, onFinishCalls, sse>>

DoLoopTop(f) ==
    /\ inv[f].pc = "loop"
    /\ Advance(f, LoopTop(inv[f]), linesLeft)

\* How the fetch of flight f settles.  For a session the two responses that
\* end the flight with an error event and nothing else (a non-ok status, a
\* response without a body) are left to the direct invocations.
SettledOutcomes(f) ==
    IF Direct THEN FetchOutcomes(inv[f])
    ELSE FetchOutcomes(inv[f]) \ {"not-ok", "not-found", "no-body"}

DoFetchSettled(f) ==
    /\ inv[f].pc = "fetch"
    /\ \E o \in SettledOutcomes(f) : Advance(f, FetchSettled(inv[f], o), linesLeft)

\* What the pass of the read loop of flight f meets.  For a session a read
\* that fails while the signal is not aborted is left to the direct
\* invocations: the failure of a fetch is the failure the session's flights
\* raise.
PassOutcomes(f) ==
    IF Direct THEN ReadOutcomes(inv[f], Chunks(StreamEvents, linesLeft))
    ELSE {r \in ReadOutcomes(inv[f], Chunks(SessionStreamEvents, linesLeft)) :
             r.kind = "error" => inv[f].aborted}

DoRead(f) ==
    /\ inv[f].pc = "read"
    /\ \E r \in PassOutcomes(f) :
          Advance(f, Read(inv[f], r),
                  IF r.kind = "chunk" THEN linesLeft - Len(r.lines) ELSE linesLeft)

DoResumeLines(f) ==
    /\ inv[f].pc = "line"
    /\ Advance(f, RunLines(inv[f]), linesLeft)

\* How the handler of local call i of flight f settles.  A handler the
\* caller registered settles in any way; the function found under
\* "constructor" is Object, which returns for any argument.  The handlers of
\* a session's flights return; handlers that raise are left to the direct
\* invocations.
SettledHandlerOutcomes(f, i) ==
    IF Direct /\ inv[f].serverTools[i].toolName \in toolHandlers
    THEN HandlerOutcomes ELSE {"returned"}

DoHandlerSettled(f) ==
    /\ inv[f].pc = "handlers"
    /\ \E i \in 1..Len(inv[f].settled) : \E o \in SettledHandlerOutcomes(f, i) :
          /\ inv[f].settled[i] = "pending"
          /\ Advance(f, HandlerSettled(inv[f], i, o), linesLeft)

\* DoYieldToolOutput that waits for the handler of the next call alone.
DoYieldToolOutputEarly(f) ==
    /\ inv[f].pc = "handlers" /\ inv[f].emitted < Len(inv[f].serverTools)
    /\ inv[f].settled[inv[f].emitted + 1] # "pending"
    /\ Advance(f, YieldToolOutput(inv[f]), linesLeft)

DoYieldToolOutput(f) ==
    /\ inv[f].pc = "handlers" /\ AllSettled(inv[f])
    /\ inv[f].emitted < Len(inv[f].serverTools)
    /\ Advance(f, YieldToolOutput(inv[f]), linesLeft)

\* DoAfterToolOutputs that does not wait for the loop over serverResults.
DoAfterToolOutputsEarly(f) ==
    /\ inv[f].pc = "handlers" /\ AllSettled(inv[f])
    /\ Advance(f, AfterToolOutputs(inv[f]), linesLeft)

DoAfterToolOutputs(f) ==
    /\ inv[f].pc = "handlers" /\ AllSettled(inv[f])
    /\ inv[f].emitted = Len(inv[f].serverTools)
    /\ Advance(f, AfterToolOutputs(inv[f]), linesLeft)

DoYieldPauseFinish(f) ==
    /\ inv[f].pc = "pause"
    /\ Advance(f, YieldPauseFinish(inv[f]), linesLeft)

\* One step of the generator of flight f.
Generator(f) ==
    \/ DoLoopTop(f)
    \/ DoFetchSettled(f)
    \/ DoRead(f)
    \/ DoResumeLines(f)
    \/ DoHandlerSettled(f)
    \/ DoYieldToolOutput(f)
    \/ DoAfterToolOutputs(f)
    \/ DoYieldPauseFinish(f)

-----------------------------------------------------------------------------
(* A caller that iterates one invocation of executeStream to its end *)

Init ==
    /\ \E p \in Payloads, r \in BOOLEAN, a \in BOOLEAN :
          inv = [f \in Flights |-> IF f = 1 THEN ExecuteStream(p, r, a) ELSE Idle]
    /\ linesLeft = MaxLines
    /\ nFlights = 0
    /\ socketAbortController = 0
    /\ sink = [f \in Flights |-> <<>>]
    /\ onFinishCalls = [f \in Flights |-> 0]
    /\ messagePromise = [f \in Flights |-> "none"]
    /\ sse = ToSSEStream(<<>>, FALSE)

Next == Abort \/ Generator(1)

Spec == Init /\ [][Next]_vars

\* The same caller, when every fetch, read and handler the generator awaits
\* settles and the caller keeps iterating: a step of the generator that can
\* be taken is taken.
SpecLive == Init /\ [][Next]_vars /\ WF_vars(Generator(1))

-----------------------------------------------------------------------------
(* A session that handles trigger, continue and stop messages *)

InitSession ==
    /\ inv = [f \in Flights |-> Idle]
    /\ linesLeft = SessionLines
    /\ nFlights = 0
    /\ socketAbortController = 0
    /\ sink = [f \in Flights |-> <<>>]
    /\ onFinishCalls = [f \in Flights |-> 0]
    /\ messagePromise = [f \in Flights |-> "none"]
    /\ sse = ToSSEStream(<<>>, FALSE)

NextSession == Message \/ Stop \/ \E f \in Flights : Generator(f)

SpecSession == InitSession /\ [][NextSession]_vars

-----------------------------------------------------------------------------
(* A toSSEStream call whose stream is the response body of one round trip *)

\* The events of the source sequences: events the engine forwards as they
\* are, and a finish.
SourceEvents ==
    {StartEvent("e1"), TextDeltaEvent, ResourceUpdateEvent("X"), FinishEvent("stop")}

\* The source sequences: up to MaxLines events.
SourceSequences == UNION {[1..n -> SourceEvents] : n \in 0..MaxLines}

\* The steps of toSSEStream's start(controller).
DoSSEEvent ==
    /\ sse.closes = 0 /\ sse.taken < Len(sse.events)
    /\ sse' = SSEEvent(sse)
    /\ UNCHANGED <<inv, linesLeft, nFlights, socketAbortController, sink, onFinishCalls,
                   messagePromise>>

DoSSEEnd ==
    /\ sse.closes = 0 /\ sse.taken = Len(sse.events) /\ ~sse.fails
    /\ sse' = SSEEnd(sse)
    /\ UNCHANGED <<inv, linesLeft, nFlights, socketAbortController, sink, onFinishCalls,
                   messagePromise>>

DoSSECatch ==
    /\ sse.closes = 0 /\ sse.taken = Len(sse.events) /\ sse.fails
    /\ sse' = SSECatch(sse)
    /\ UNCHANGED <<inv, linesLeft, nFlights, socketAbortController, sink, onFinishCalls,
                   messagePromise>>

\* The fetch of the round trip answers with the stream as its body.
DoFetchBody ==
    /\ inv[1].pc = "fetch"
    /\ Advance(1, FetchSettled(inv[1], "ok"), linesLeft)

\* reader.read() gives a chunk: any non-empty prefix of the text enqueued and
\* not yet read.  A chunk that completes no event leaves the engine in its
\* read loop.
DoReadBodyChunk ==
    /\ inv[1].pc = "read"
    /\ \E n \in 1..Len(sse.wire) :
          LET d == DecodeChunk(sse.buffer, SubSeq(sse.wire, 1, n)) IN
          /\ sse' = [sse EXCEPT !.wire = SubSeq(@, n + 1, Len(@)), !.buffer = d.buffer]
          /\ inv' = [inv EXCEPT ![1] =
                        IF d.events = <<>> THEN @
                        ELSE Read(@, [kind |-> "chunk", lines |-> d.events])]
    /\ UNCHANGED <<linesLeft, nFlights, socketAbortController, sink, onFinishCalls,
                   messagePromise>>

\* DoReadBodyDone that first takes what the buffer holds as a last line.
DoReadBodyDoneFlush ==
    /\ inv[1].pc = "read"
    /\ sse.closes > 0 /\ sse.wire = <<>>
    /\ LET events == LinesEvents(<<sse.buffer>>) IN
       IF events # <<>>
       THEN /\ sse' = [sse EXCEPT !.buffer = <<>>]
            /\ inv' = [inv EXCEPT ![1] = Read(@, [kind |-> "chunk", lines |-> events])]
            /\ UNCHANGED <<linesLeft, nFlights, socketAbortController, sink, onFinishCalls,
                           messagePromise>>
       ELSE Advance(1, Read(inv[1], [kind |-> "done"]), linesLeft)

\* reader.read() gives done: the stream is closed and all its text was read.
DoReadBodyDone ==
    /\ inv[1].pc = "read"
    /\ sse.closes > 0 /\ sse.wire = <<>>
    /\ Advance(1, Read(inv[1], [kind |-> "done"]), linesLeft)

InitSSE ==
    /\ \E events \in SourceSequences, fails \in BOOLEAN : sse = ToSSEStream(events, fails)
    /\ inv = [f \in Flights |->
                 IF f = 1 THEN ExecuteStream([executionId |-> Undefined, toolResults |-> None],
                                             TRUE, FALSE)
                 ELSE Idle]
    /\ linesLeft = MaxLines
    /\ nFlights = 0
    /\ socketAbortController = 0
    /\ sink = [f \in Flights |-> <<>>]
    /\ onFinishCalls = [f \in Flights |-> 0]
    /\ messagePromise = [f \in Flights |-> "none"]

NextSSE ==
    \/ DoSSEEvent \/ DoSSEEnd \/ DoSSECatch
    \/ DoLoopTop(1) \/ DoFetchBody \/ DoReadBodyChunk \/ DoReadBodyDone \/ DoResumeLines(1)

SpecSSE == InitSSE /\ [][NextSSE]_vars

-----------------------------------------------------------------------------
(* A response body of any text, read by one round trip *)

\* The events the records of these bodies carry: events the engine forwards.
BodyEvents == {TextDeltaEvent, StartEvent("e1"), FinishEvent("stop")}

\* The lines of a body: a record of a valid event, a record whose JSON text is
\* cut short, a record whose JSON value is no event, the sentinel, a blank
\* line, and a line that lacks the start of the prefix.
BodyLines ==
    {[kind |-> "event", event |-> ev] : ev \in BodyEvents}
    \cup {[kind |-> k] : k \in {"malformed", "invalid", "done", "blank", "other"}}

\* The text of a line, without its line feed.
LineText(l) ==
    CASE l.kind = "event" -> <<Ch("da"), Ch("ta: ")>> \o JSONStringify(l.event)
      [] l.kind = "malformed" -> <<Ch("da"), Ch("ta: "), JSONStringify(TextDeltaEvent)[1]>>
      [] l.kind = "invalid" -> <<Ch("da"), Ch("ta: ")>> \o JSONStringify([shape |-> "unknown"])
      [] l.kind = "done" -> <<Ch("da"), Ch("ta: "), Ch("[DONE]")>>
      [] l.kind = "blank" -> <<>>
      [] l.kind = "other" -> <<Ch("ta: ")>> \o JSONStringify(TextDeltaEvent)

\* What a body can end with after its last line feed: nothing, or the text of
\* a record that was not terminated, a last finish event among them.
BodyTails ==
    {<<>>} \cup {<<Ch("da"), Ch("ta: ")>> \o JSONStringify(ev) :
                    ev \in {TextDeltaEvent, FinishEvent("stop")}}

\* The bodies: up to MaxLines lines.
BodyLineSeqs == UNION {[1..n -> BodyLines] : n \in 0..MaxLines}

RECURSIVE BodyText(_, _)
BodyText(lines, tail) ==
    IF lines = <<>> THEN tail
    ELSE LineText(Head(lines)) \o <<LF>> \o BodyText(Tail(lines), tail)

\* A response body whose whole text is there to be read, in chunks of any
\* size, and is closed: events lists its lines, chunks holds its text.
ResponseBody(lines, tail) ==
    [events |-> lines, fails |-> FALSE, taken |-> Len(lines),
     chunks |-> <<BodyText(lines, tail)>>, closes |-> 1, atClose |-> 1,
     wire |-> BodyText(lines, tail), buffer |-> <<>>]

InitText ==
    /\ \E lines \in BodyLineSeqs, tail \in BodyTails : sse = ResponseBody(lines, tail)
    /\ inv = [f \in Flights |->
                 IF f = 1 THEN ExecuteStream([executionId |-> Undefined, toolResults |-> None],
                                             TRUE, FALSE)
                 ELSE Idle]
    /\ linesLeft = MaxLines
    /\ nFlights = 0
    /\ socketAbortController = 0
    /\ sink = [f \in Flights |-> <<>>]
    /\ onFinishCalls = [f \in Flights |-> 0]
    /\ messagePromise = [f \in Flights |-> "none"]

NextText ==
    DoLoopTop(1) \/ DoFetchBody \/ DoReadBodyChunk \/ DoReadBodyDone \/ DoResumeLines(1)

SpecText == InitText /\ [][NextText]_vars

-----------------------------------------------------------------------------
(* Properties of executeStream, stated of invocation 1 under Spec *)

\* A call whose tool the caller registered a handler for, and one it did not.
Registered(tc) == tc.toolName \in toolHandlers
Unregistered(tc) == tc.toolName \notin toolHandlers

\* The invocation is past the tool calls of its last stream: it is at the head
\* of the loop again, awaits a further fetch, or has ended.
PastBatch(e) == IsSome(e.pendingToolCalls) /\ e.pc \in {"loop", "fetch", "done"}

HasType(events, type) == \E i \in 1..Len(events) : events[i].type = type

\* The last n events of a sequence.
Tail_(events, n) == SubSeq(events, Len(events) - n + 1, Len(events))

\* The end of the output of a pause over `calls`: a tool output per handled
\* call in list order, one client-tool-request with the unhandled calls and
\* the handled calls' results, and the client-tool-calls finish.
PauseOutput(e, calls) ==
    LET handled == SelectSeq(calls, Registered)
        n == Len(handled)
    IN  /\ Len(e.out) >= n + 2
        /\ LET t == Tail_(e.out, n + 2) IN
           /\ \A i \in 1..n :
                 /\ t[i].type \in {"tool-output-available", "tool-output-error"}
                 /\ t[i].toolCallId = handled[i].toolCallId
           /\ t[n + 1].type = "client-tool-request"
           /\ t[n + 1].toolCalls = SelectSeq(calls, Unregistered)
           /\ IsSome(t[n + 1].serverToolResults)
           /\ Len(The(t[n + 1].serverToolResults)) = n
           /\ \A i \in 1..n :
                 The(t[n + 1].serverToolResults)[i].toolCallId = handled[i].toolCallId
           /\ t[n + 2] = PauseFinish(e.executionId)
        /\ \A i \in 1..(Len(e.out) - 2) : e.out[i].type # "client-tool-request"

MixedBatch(e) ==
    /\ PastBatch(e)
    /\ \E i \in 1..Len(The(e.pendingToolCalls)) : Registered(The(e.pendingToolCalls)[i])
    /\ \E i \in 1..Len(The(e.pendingToolCalls)) : Unregistered(The(e.pendingToolCalls)[i])
    /\ Truthy(e.executionId)
    /\ ~e.aborted

\* C1: a tool-request with calls the caller registered a handler for and calls
\* it did not, a known execution identifier and no cancellation: the
\* invocation ends by pausing, its output ends with the handled calls' tool
\* outputs, one client-tool-request for exactly the unhandled calls with the
\* handled calls' results, and the client-tool-calls finish; no further fetch.
C1_MixedBatchPauses ==
    MixedBatch(inv[1]) =>
        /\ inv[1].pc = "done" /\ inv[1].exit = "pause"
        /\ PauseOutput(inv[1], The(inv[1].pendingToolCalls))

\* C1, for tool names that are no key of Object.prototype (it holds there).
C1_MixedBatchPausesOwnNames ==
    (/\ MixedBatch(inv[1])
     /\ \A i \in 1..Len(The(inv[1].pendingToolCalls)) :
           The(inv[1].pendingToolCalls)[i].toolName \notin ObjectPrototypeKeys)
    => /\ inv[1].pc = "done" /\ inv[1].exit = "pause"
       /\ PauseOutput(inv[1], The(inv[1].pendingToolCalls))

\* C2: a tool-request that lists only calls with a registered handler (at
\* least one), whatever else the stream carried, and no cancellation: the
\* invocation goes on to one further fetch whose toolResults are the results
\* of exactly those calls, and has yielded no client-tool-request.
C2_LocalBatchContinues ==
    LET e == inv[1]
        calls == The(e.pendingToolCalls)
    IN  (/\ IsSome(e.pendingToolCalls) /\ e.pc \in {"fetch", "done"}
         /\ calls # <<>>
         /\ \A i \in 1..Len(calls) : Registered(calls[i])
         /\ ~e.aborted)
        => /\ e.pc = "done" => e.exit \in {"api-error", "no-body"}
           /\ Len(e.requests) >= 2
           /\ e.serverTools = calls
           /\ Last(e.requests).toolResults = Some(ServerResults(e))
           /\ ~HasType(e.out, "client-tool-request")

\* C3: a finish event is the last event of an invocation: nothing is yielded
\* after a finish.
C3_FinishIsLast ==
    \A i \in 1..(Len(inv[1].out) - 1) : inv[1].out[i].type # "finish"

\* C4: no invocation both forwards a finish of the stream and pauses with a
\* client-tool-request.
C4_FinishOrPause ==
    ~(inv[1].forwardedFinish > 0 /\ HasType(inv[1].out, "client-tool-request"))

\* C5: an invocation that ends raises a failure or has yielded a finish or an
\* error event as its last event; it never ends silently.
C5_NoSilentEnd ==
    inv[1].pc = "done" =>
        /\ inv[1].out # <<>>
        /\ Last(inv[1].out).type \in {"finish", "error"}

\* C6: when the signal is aborted at the call, the invocation yields the one
\* event finish{stop}, makes no fetch, calls no handler, and ends.
C6_AbortedAtCall ==
    inv[1].abortedAt = "call" =>
        /\ inv[1].pc \in {"loop", "done"}
        /\ inv[1].requests = <<>>
        /\ inv[1].handlerCalls = 0
        /\ inv[1].out = IF inv[1].pc = "done" THEN <<StopFinish>> ELSE <<>>
        /\ inv[1].pc = "done" => inv[1].exit = "stop"

C6_Witness ==
    /\ inv[1].abortedAt = "call" /\ inv[1].pc = "done"
    /\ inv[1].out = <<StopFinish>> /\ inv[1].requests = <<>>

\* C7: when the signal is aborted while the invocation runs, wherever it is,
\* the last event the invocation yields is the synthetic finish{stop}.
C7_AbortEndsInStop ==
    (/\ inv[1].aborted /\ inv[1].abortedAt # "call"
     /\ inv[1].pc \in {"done", "threw"})
    => /\ inv[1].exit = "stop"
       /\ inv[1].out # <<>> /\ Last(inv[1].out) = StopFinish

\* C8: once the signal is aborted the invocation yields nothing but the
\* synthetic finish{stop} and dispatches no resource update.
C8_NothingAfterAbort ==
    [][inv[1].aborted =>
          /\ inv'[1].out # inv[1].out =>
                /\ inv'[1].out = Append(inv[1].out, StopFinish)
                /\ inv'[1].exit = "stop"
          /\ inv'[1].resourceUpdates = inv[1].resourceUpdates]_vars

\* C9: once the signal is aborted the invocation makes no new fetch.
C9_NoFetchAfterAbort ==
    [][inv[1].aborted => inv'[1].requests = inv[1].requests]_vars

\* The signal was aborted while the local handlers ran, and the invocation
\* ended at the head of the loop without a second fetch.
C9_Witness ==
    /\ inv[1].abortedAt = "handlers" /\ inv[1].pc = "done" /\ inv[1].exit = "stop"
    /\ inv[1].toolResults # None /\ Len(inv[1].requests) = 1

-----------------------------------------------------------------------------
(* Properties of AgentSession.handleSocketMessage, under SpecSession *)

\* C10: at every moment only the flight of the latest trigger/continue
\* message can have a signal that is not aborted, the controller field holds
\* that flight's controller, and when a flight has made its first fetch the
\* signals of all earlier flights are aborted.
C10_SingleFlight ==
    /\ socketAbortController = nFlights
    /\ \A f \in 1..nFlights : ~inv[f].aborted => f = nFlights
    /\ \A f \in 1..nFlights : \A g \in 1..(f - 1) :
          Len(inv[f].requests) > 0 => inv[g].aborted

\* A second message arrived while the first flight was still running.
C10_Witness ==
    /\ nFlights = 2
    /\ inv[1].aborted /\ inv[1].abortedAt \in {"fetch", "read", "line", "handlers"}
    /\ ~inv[2].aborted /\ Len(inv[2].requests) = 1

\* C11: once a later trigger/continue message was received, a superseded
\* flight passes no further event to its onEvent, does not call its
\* onFinish and makes no further fetch.
C11_SupersededIsSilent ==
    [][\A f \in 1..(nFlights - 1) :
          /\ sink'[f] = sink[f]
          /\ onFinishCalls'[f] = onFinishCalls[f]
          /\ inv'[f].requests = inv[f].requests]_vars

\* The first flight was superseded while its local handler ran; it ended
\* having yielded events its sink never received.
C11_Witness ==
    /\ nFlights = 2
    /\ inv[1].abortedAt = "handlers" /\ inv[1].pc = "done"
    /\ Len(inv[1].out) > Len(sink[1])
    /\ onFinishCalls[1] = 0

\* C12: a step that starts no flight (a stop message among them) leaves the
\* controller field as it is and starts no invocation; the step that aborts
\* a signal aborts the signal of the flight whose controller the field holds
\* and nothing else: no fetch, no onEvent, no onFinish, no change to any
\* other flight.
C12_StopOnlyFlips ==
    [][nFlights' = nFlights =>
          /\ socketAbortController' = socketAbortController
          /\ \A f \in Flights : inv[f].pc = "idle" => inv'[f] = inv[f]
          /\ (\E f \in Flights : inv'[f].aborted # inv[f].aborted) =>
                /\ sink' = sink /\ onFinishCalls' = onFinishCalls
                /\ messagePromise' = messagePromise
                /\ \A f \in Flights :
                      /\ f # socketAbortController => inv'[f] = inv[f]
                      /\ inv'[f].requests = inv[f].requests
                      /\ inv'[f].out = inv[f].out
                      /\ inv'[f].pc = inv[f].pc]_vars

\* A stop message arrived while the only flight was reading its stream.
C12_Witness ==
    /\ nFlights = 1 /\ socketAbortController = 1
    /\ inv[1].aborted /\ inv[1].abortedAt = "read" /\ inv[1].pc = "read"
    /\ messagePromise[1] = "pending"

\* The signal of flight f was not aborted when its generator ended.
LiveAtEnd(f) == inv[f].abortedAt \in {"", "done", "threw"}

\* C13: when the generator of a flight raises a failure, handleSocketMessage
\* is fulfilled all the same; if the flight's signal was not aborted then, its
\* onEvent has received every event the generator yielded and after them one
\* internal-error event; if the signal was aborted, no event for the failure.
C13_FailureBecomesEvent ==
    \A f \in 1..nFlights :
        inv[f].pc = "threw" =>
            /\ messagePromise[f] = "fulfilled"
            /\ IF LiveAtEnd(f)
               THEN /\ sink[f] = Append(inv[f].out, InternalErrorEvent("Unknown error"))
                    /\ \A i \in 1..Len(inv[f].out) : inv[f].out[i].type # "error"
               ELSE \A i \in 1..Len(sink[f]) : sink[f][i].type # "error"

\* The first flight failed after its signal was aborted, the second failed
\* with its signal not aborted, after a tool output.
C13_Witness ==
    /\ nFlights = 2
    /\ inv[1].pc = "threw" /\ inv[1].abortedAt = "fetch"
    /\ inv[2].pc = "threw" /\ ~inv[2].aborted /\ Len(sink[2]) = 2

\* C14: a flight whose signal is never aborted calls onFinish exactly once
\* when it has ended, after every call of its onEvent; a flight whose signal
\* was aborted before it ended never calls onFinish.
C14_OnFinishOnce ==
    \A f \in 1..nFlights :
        /\ onFinishCalls[f] \in {0, 1}
        /\ onFinishCalls[f] = 1 => ~Running(inv[f]) /\ sink[f] = inv[f].out
        /\ (~Running(inv[f]) /\ ~inv[f].aborted) => onFinishCalls[f] = 1
        /\ ~LiveAtEnd(f) => onFinishCalls[f] = 0

-----------------------------------------------------------------------------
(* Properties of a session invocation iterated by its caller, under Spec *)

\* The positions in the output of the resource-update events that name a
\* resource of the session.
MappedUpdates(e) ==
    {k \in 1..Len(e.out) : e.out[k].type = "resource-update" /\ e.out[k].name \in resourceMap}

-----------------------------------------------------------------------------
(* Properties of WorkersApi.execute, under Spec *)

\* The invocation WorkersApi.execute makes: an empty payload and no
\* onResourceUpdate callback.
IsWorkersExecute(e) ==
    /\ e.payload = [executionId |-> Undefined, toolResults |-> None]
    /\ ~e.onResourceUpdate

\* C16: of the requests of one WorkersApi.execute invocation only the first
\* has the body {type: 'start', input}; every later one has the body
\* {type: 'continue', executionId, toolResults} with the tool results the
\* engine computed for it.
C16_StartOnlyOnce ==
    LET e == inv[1] IN
    IsWorkersExecute(e) =>
        \A i \in 1..Len(e.requests) :
            IF i = 1 THEN WorkersExecuteBody(e.requests[i]).type = "start"
            ELSE /\ WorkersExecuteBody(e.requests[i]).type = "continue"
                 /\ WorkersExecuteBody(e.requests[i]).toolResults = e.requests[i].toolResults
                 /\ IsSome(e.requests[i].toolResults)

-----------------------------------------------------------------------------
(* Properties of the execution identifier executeStream carries, under Spec *)

\* The identifier of the last start event with an identifier among the first
\* n events the invocation yielded, or the identifier of the payload when
\* there is none.  (Every start event parsed from a stream is yielded.)
CarriedId(e, n) ==
    LET starts == {k \in 1..n : e.out[k].type = "start" /\ Truthy(e.out[k].executionId)}
    IN  IF starts = {} THEN e.payload.executionId
        ELSE e.out[CHOOSE k \in starts : \A m \in starts : m <= k].executionId

-----------------------------------------------------------------------------
(* Properties of toSSEStream, under SpecSSE *)

\* The records of the first n events of the source, in order.
RECURSIVE DataRecords(_, _)
DataRecords(events, n) ==
    IF n = 0 THEN <<>> ELSE Append(DataRecords(events, n - 1), SSEData(events[n]))

ErrorRecord == SSEData(InternalErrorEvent("Unknown error"))

\* C18: when the source sequence completes without failure, the stream
\* carries exactly one data record per source event, in source order, then
\* exactly one [DONE] sentinel, and is then closed; nothing is enqueued after
\* the close.
C18_CompleteStream ==
    ~sse.fails =>
        /\ sse.closes = 0 => sse.chunks = DataRecords(sse.events, sse.taken)
        /\ sse.closes > 0 =>
              /\ sse.chunks = Append(DataRecords(sse.events, Len(sse.events)), SSEDone)
              /\ sse.closes = 1
              /\ sse.atClose = Len(sse.chunks)

C18_Witness ==
    /\ ~sse.fails /\ sse.closes = 1 /\ Len(sse.events) = MaxLines
    /\ sse.events[1] # sse.events[2]

\* C19: when the source raises after k events, the stream carries the k data
\* records, then exactly one internal-error record, and is then closed; in
\* every case the stream is closed at most once, and once closed its last
\* record is the [DONE] sentinel or the internal-error record, and it does
\* not carry both.
C19_FailedStream ==
    /\ sse.closes <= 1
    /\ sse.fails /\ sse.closes > 0 =>
          sse.chunks = Append(DataRecords(sse.events, Len(sse.events)), ErrorRecord)
    /\ sse.closes > 0 =>
          /\ sse.atClose = Len(sse.chunks)
          /\ Last(sse.chunks) \in {SSEDone, ErrorRecord}
          /\ ~(\E i, j \in 1..Len(sse.chunks) :
                  sse.chunks[i] = SSEDone /\ sse.chunks[j] = ErrorRecord)

C19_Witness ==
    /\ sse.fails /\ sse.closes = 1 /\ Len(sse.events) = 1
    /\ Last(sse.chunks) = ErrorRecord

\* The source sequences of the round trip: no tool-request and no finish.
Forwardable(events) ==
    \A i \in 1..Len(events) : events[i].type \notin {"tool-request", "finish"}

RECURSIVE Flatten(_)
Flatten(chunks) == IF chunks = <<>> THEN <<>> ELSE Head(chunks) \o Flatten(Tail(chunks))

\* C20: for a source sequence without tool-request and finish events that
\* completes, the round trip that reads the stream as its response body
\* yields a prefix of the source sequence while it runs and exactly the
\* source sequence, in order, when it has ended; the [DONE] sentinel yields
\* no event.
C20_RoundTrip ==
    ~sse.fails /\ Forwardable(sse.events) =>
        /\ Len(inv[1].out) <= Len(sse.events)
        /\ inv[1].out = SubSeq(sse.events, 1, Len(inv[1].out))
        /\ inv[1].pc = "done" => inv[1].out = sse.events

C20_Witness ==
    /\ ~sse.fails /\ Forwardable(sse.events) /\ Len(sse.events) = MaxLines
    /\ sse.events[1] # sse.events[2]
    /\ inv[1].pc = "done" /\ inv[1].out = sse.events

-----------------------------------------------------------------------------
(* Properties of the decoding loop of executeStream, under SpecText *)

\* The text of the body that the round trip has read.
TextRead ==
    LET text == sse.chunks[1] IN SubSeq(text, 1, Len(text) - Len(sse.wire))

\* C21: however the text read so far was split into chunks, the records
\* decoded from it (the events yielded and the events of the chunk still
\* being looped over) and the fragment held back are those of the same text
\* read as one chunk; so any two splits of a text give the same events.
C21_ChunkBoundaryInvariance ==
    LET lines == Split(TextRead)
    IN  /\ sse.buffer = Last(lines)
        /\ inv[1].out \o inv[1].lines = LinesEvents(SubSeq(lines, 1, Len(lines) - 1))

\* A second record is being read after a first one was decoded, and the last
\* chunk ended inside the prefix of the second.
C21_Witness ==
    /\ Len(inv[1].out) = 1 /\ inv[1].pc = "read"
    /\ sse.buffer = <<Ch("da")>>

\* The events of the records of a body, in order.
RECURSIVE RecordEvents(_)
RecordEvents(lines) ==
    IF lines = <<>> THEN <<>>
    ELSE (IF Head(lines).kind = "event" THEN <<Head(lines).event>> ELSE <<>>)
         \o RecordEvents(Tail(lines))

\* C22: a record whose JSON text is malformed or whose value is no event
\* yields nothing and does not end the round trip: what the round trip
\* yields is always a prefix of the events of the valid records, in order,
\* and once the body is read to its end it is all of them.
C22_MalformedSkipped ==
    /\ Len(inv[1].out) <= Len(RecordEvents(sse.events))
    /\ inv[1].out = SubSeq(RecordEvents(sse.events), 1, Len(inv[1].out))
    /\ inv[1].pc = "done" => inv[1].out = RecordEvents(sse.events)

C22_Witness ==
    /\ inv[1].pc = "done" /\ Len(sse.events) >= 2
    /\ sse.events[1].kind \in {"malformed", "invalid"}
    /\ sse.events[2].kind = "event"
    /\ inv[1].out = RecordEvents(sse.events)

-----------------------------------------------------------------------------
(* Properties of the local tool handlers of executeStream, under Spec *)

\* C23: a handler that raises, whatever the message of its error, does not
\* make executeStream raise: while the handlers of a batch are awaited and
\* their outputs yielded the invocation never fails, and the event yielded
\* for a call whose handler raised is a tool-output-error with the call's
\* toolCallId.
C23_HandlerFailureIsData ==
    [][inv[1].pc = "handlers" =>
          /\ inv'[1].pc # "threw"
          /\ inv'[1].emitted > inv[1].emitted =>
                LET i == inv'[1].emitted IN
                inv[1].settled[i] # "returned" =>
                    /\ Last(inv'[1].out).type = "tool-output-error"
                    /\ Last(inv'[1].out).toolCallId = inv[1].serverTools[i].toolCallId]_vars

-----------------------------------------------------------------------------
(* Properties of the failures of a round trip of executeStream, under Spec *)

\* C24: when the response of a fetch, the first of the invocation or a later
\* one, has a non-success status, the step that takes the response yields
\* one event, the error event with that status and the parsed message, and
\* ends the invocation: no request and no handler call is added, and an
\* invocation that has ended does nothing more.
C24_NonSuccessStatus ==
    [][/\ inv[1].pc = "fetch" /\ inv'[1].lastAwait \in {"not-ok", "not-found"} =>
             /\ inv'[1].out =
                   Append(inv[1].out,
                          ApiErrorEvent(IF inv'[1].lastAwait = "not-ok" THEN 500 ELSE 404,
                                        <<"message of",
                                          IF inv'[1].lastAwait = "not-ok" THEN 500 ELSE 404>>))
             /\ inv'[1].pc = "done"
             /\ inv'[1].requests = inv[1].requests
             /\ inv'[1].handlerCalls = inv[1].handlerCalls
       /\ inv[1].pc = "done" => inv'[1] = inv[1]]_vars

\* A later round trip was answered with a non-success status.
C24_Witness ==
    /\ inv[1].exit = "api-error" /\ Len(inv[1].requests) = 2
    /\ Last(inv[1].out).status = 404

-----------------------------------------------------------------------------
(* Properties of the tool calls of a round trip of executeStream, under Spec *)

\* C26: when the pending tool calls of a round trip include a call the
\* caller registered no handler for, no execution identifier is known and
\* the signal is not aborted, the invocation ends with an internal-error
\* event: it has yielded no client-tool-request and no client-tool-calls
\* finish, and makes no further request.
C26_PauseWithoutId ==
    LET e == inv[1]
        calls == The(e.pendingToolCalls)
    IN  (/\ PastBatch(e)
         /\ \E i \in 1..Len(calls) : Unregistered(calls[i])
         /\ ~Truthy(e.executionId)
         /\ ~e.aborted)
        => /\ e.pc = "done" /\ e.exit = "missing-id"
           /\ Last(e.out) = InternalErrorEvent("Missing executionId for client-tool-request")
           /\ ~HasType(e.out, "client-tool-request")
           /\ \A i \in 1..Len(e.out) :
                 e.out[i].type = "finish" => e.out[i].finishReason # "client-tool-calls"

\* C27: no tool-request event is among the events the invocation yields.
C27_ToolRequestInternal == ~HasType(inv[1].out, "tool-request")

\* A tool-request was captured after an event was yielded.
C27_Witness ==
    /\ IsSome(inv[1].pendingToolCalls) /\ The(inv[1].pendingToolCalls) # <<>>
    /\ inv[1].lastAwait = "chunk" /\ inv[1].pc = "read"
    /\ Len(inv[1].requests) = 1
    /\ Len(inv[1].out) = MaxLines - 1

\* C28: a finish event of a stream is suppressed exactly when its reason is
\* tool-calls and a non-empty tool-call list was captured before it in the
\* same round trip; every other finish is forwarded, a tool-calls finish
\* that follows no tool-request or only an empty one included.
C28_FinishSuppression ==
    \A i \in 1..Len(inv[1].finishes) :
        LET r == inv[1].finishes[i] IN
        ~r.forwarded <=>
            (r.reason = "tool-calls" /\ IsSome(r.captured) /\ The(r.captured) # <<>>)

\* C29: the local and the external set partition the pending tool calls: the
\* local set is the calls the caller registered a handler for under exactly
\* their toolName, the external set is the other calls, and both keep the
\* order of the tool-request list.
C29_Partition ==
    inv[1].pc \in {"handlers", "pause"} =>
        /\ inv[1].serverTools = SelectSeq(The(inv[1].pendingToolCalls), Registered)
        /\ inv[1].clientTools = SelectSeq(The(inv[1].pendingToolCalls), Unregistered)

\* The toolCallIds of a sequence of events or results.
CallIds(rs) == [k \in 1..Len(rs) |-> rs[k].toolCallId]

\* C30: in whatever order the handlers of a batch settle, the tool outputs
\* of the batch are yielded in the order of the local set, one per local
\* call, and the toolResults of the next request and the serverToolResults
\* of the client-tool-request have that order too.
C30_ArrayOrder ==
    LET e == inv[1]
        ids == CallIds(e.serverTools)
    IN  /\ e.pc = "handlers" =>
              /\ e.emitted <= Len(e.out)
              /\ CallIds(Tail_(e.out, e.emitted)) = SubSeq(ids, 1, e.emitted)
              /\ \A k \in 1..e.emitted :
                    Tail_(e.out, e.emitted)[k].type
                        \in {"tool-output-available", "tool-output-error"}
        /\ e.pc = "pause" /\ IsSome(Last(e.out).serverToolResults) =>
              CallIds(The(Last(e.out).serverToolResults)) = ids
        /\ e.pc = "fetch" /\ Len(e.requests) >= 2 =>
              /\ IsSome(Last(e.requests).toolResults)
              /\ CallIds(The(Last(e.requests).toolResults)) = ids

\* The handlers of a batch of two local calls settled in the reverse of the
\* order of the local set, and the next request was made.
C30_Witness ==
    /\ inv[1].completed = <<2, 1>>
    /\ inv[1].pc = "fetch" /\ Len(inv[1].requests) = 2

-----------------------------------------------------------------------------
(* Properties of the order of the steps of executeStream, under Spec *)

\* C31: the handlers of all the local calls of a batch are started together,
\* before any of them is awaited, and while a handler of the batch has not
\* settled the invocation yields nothing and issues no request.
C31_BatchBarrier ==
    [][/\ inv[1].pc # "handlers" /\ inv'[1].pc = "handlers" =>
             /\ inv'[1].handlerCalls = inv[1].handlerCalls + Len(inv'[1].serverTools)
             /\ inv'[1].settled = [i \in 1..Len(inv'[1].serverTools) |-> "pending"]
       /\ inv[1].pc = "handlers" /\ ~AllSettled(inv[1]) =>
             /\ inv'[1].out = inv[1].out
             /\ inv'[1].requests = inv[1].requests
             /\ inv'[1].handlerCalls = inv[1].handlerCalls]_vars

\* Of two handlers the second has settled, the first has not, and nothing
\* was yielded for the batch.
C31_Witness ==
    /\ inv[1].pc = "handlers" /\ Len(inv[1].settled) = 2
    /\ inv[1].settled[1] = "pending" /\ inv[1].settled[2] # "pending"
    /\ inv[1].emitted = 0

\* C32: the tool outputs of a local resolution are all yielded before the
\* client-tool-request of the round trip and before the next request: the
\* step that yields the client-tool-request or goes on to the next pass of
\* the loop is taken when one output per local call has been yielded, and
\* these outputs are the last events yielded before it.
C32_OutputsFirst ==
    [][inv[1].pc = "handlers" /\ inv'[1].pc # "handlers" =>
          LET n == Len(inv[1].serverTools) IN
          /\ inv[1].emitted = n
          /\ Len(inv[1].out) >= n
          /\ \A k \in 1..n :
                /\ Tail_(inv[1].out, n)[k].type
                      \in {"tool-output-available", "tool-output-error"}
                /\ Tail_(inv[1].out, n)[k].toolCallId = inv[1].serverTools[k].toolCallId
          /\ inv'[1].requests = inv[1].requests]_vars

\* A pause whose client-tool-request follows a tool output.
C32_Witness ==
    /\ inv[1].pc = "pause" /\ Len(inv[1].serverTools) = 1
    /\ Len(inv[1].out) >= 2
    /\ inv[1].out[Len(inv[1].out) - 1].type = "tool-output-available"

\* C33: a request after the first is issued only when the read of the stream
\* of the round trip before it has given done and no line of that stream is
\* left to process; the invocation awaits one fetch or one read at a time.
C33_RoundTripsInOrder ==
    [][inv'[1].requests # inv[1].requests =>
          /\ Len(inv'[1].requests) = Len(inv[1].requests) + 1
          /\ inv[1].pc = "loop" /\ inv'[1].pc = "fetch"
          /\ inv[1].lines = <<>>
          /\ Len(inv[1].requests) > 0 => inv[1].lastAwait = "done"]_vars

C33_Witness ==
    /\ Len(inv[1].requests) = 2 /\ inv[1].pc = "fetch"
    /\ Len(inv[1].out) = MaxLines

-----------------------------------------------------------------------------
(* Properties of the request bodies of the facades, under Spec *)

\* The facade that made the invocation: the session supplies the callback
\* onResourceUpdate, WorkersApi.execute an empty payload, WorkersApi.continue
\* a payload with the executionId and the toolResults of its caller.
FacadeBody(e, state) ==
    IF e.onResourceUpdate THEN SessionBody(e.payload, state)
    ELSE IF e.payload.executionId = Undefined THEN WorkersExecuteBody(state)
    ELSE WorkersContinueBody(e.payload, state)

\* The toolResults of a body: None when the body has no such key.
BodyToolResults(body) ==
    IF "toolResults" \in DOMAIN body THEN body.toolResults ELSE None

\* C34: tool results are sent in exactly one request, for the session, for
\* WorkersApi.execute and for WorkersApi.continue: the body of the first
\* request carries the toolResults of the payload; the results of a local
\* resolution are what the invocation holds when it goes on to the next pass
\* of the loop, and the body of the request made then carries them; once a
\* response has arrived the invocation holds none, so no later body has them.
C34_ResultsSentOnce ==
    [][LET e == inv[1]
           e2 == inv'[1]
       IN  /\ Len(e2.requests) > Len(e.requests) =>
                 /\ BodyToolResults(FacadeBody(e2, Last(e2.requests))) = e.toolResults
                 /\ e.toolResults = IF Len(e.requests) = 0 THEN e.payload.toolResults
                                    ELSE Some(ServerResults(e))
           /\ e2.pc \in {"read", "line", "handlers", "pause"} => e2.toolResults = None]_vars

\* C37: in a session invocation the first request of a trigger has a body
\* with triggerName and input and neither executionId nor toolResults; the
\* first request of a continue and every request after a local resolution
\* have a body with executionId and toolResults and neither triggerName nor
\* input.
C37_SessionBodyShapes ==
    LET e == inv[1] IN
    e.onResourceUpdate =>
        \A i \in 1..Len(e.requests) :
            DOMAIN SessionBody(e.payload, e.requests[i]) =
                IF i = 1 /\ e.payload.executionId = Undefined
                THEN {"triggerName", "input"}
                ELSE {"executionId", "toolResults"}

-----------------------------------------------------------------------------
(* Properties of the tool results of a local resolution, under Spec *)

\* A tool result that copies the six fields of its pending call and has
\* exactly one of result and error: error when the handler raised.
FaithfulResult(tr, tc, outcome) ==
    /\ \A k \in {"toolCallId", "toolName", "outputVariable", "blockIndex", "thread",
                 "workerId"} :
          k \in DOMAIN tr /\ tr[k] = tc[k]
    /\ ("error" \in DOMAIN tr) = (outcome # "returned")
    /\ ("result" \in DOMAIN tr) = (outcome = "returned")

\* C35: the tool result built for every local call whose handler has
\* settled, by executeStream and by executeWorkerStream, copies toolCallId,
\* toolName, outputVariable, blockIndex, thread and workerId from the call
\* and has exactly one of result and error.
C35_ResultFields ==
    inv[1].pc = "handlers" =>
        \A i \in 1..Len(inv[1].serverTools) :
            inv[1].settled[i] # "pending" =>
                /\ FaithfulResult(ToolResult(inv[1].serverTools[i], inv[1].settled[i]),
                                  inv[1].serverTools[i], inv[1].settled[i])
                /\ FaithfulResult(WorkerToolResult(inv[1].serverTools[i], inv[1].settled[i]),
                                  inv[1].serverTools[i], inv[1].settled[i])

-----------------------------------------------------------------------------
(* Properties of executeStream under cancellation, under SpecLive *)

\* C36: once the signal is aborted the invocation ends, and from the abort
\* on it issues no further request.
C36_CancelledEnds ==
    /\ inv[1].aborted ~> ~Running(inv[1])
    /\ [][inv[1].aborted => inv'[1].requests = inv[1].requests]_vars

\* The signal was aborted while handlers ran, and the invocation ended at
\* the head of the next pass of the loop.
C36_Witness ==
    /\ inv[1].abortedAt = "handlers" /\ inv[1].pc = "done" /\ inv[1].exit = "stop"
    /\ Len(inv[1].requests) = 1

-----------------------------------------------------------------------------
(* Properties of the pending tool calls of a round trip, under Spec *)

\* The phases of a round trip in which its pending tool calls are acted on.
ActsOnCalls(e) == e.pc \in {"handlers", "outputs", "pause"}

\* C38: the calls whose handlers are run and the calls handed to the caller
\* are those of the last tool-request of the stream of the same round trip;
\* a round trip whose stream had no tool-request acts on no call.
C38_LastRequestOnly ==
    ActsOnCalls(inv[1]) =>
        /\ inv[1].toolRequests # <<>>
        /\ LET last == inv[1].toolRequests[Len(inv[1].toolRequests)]
           IN  /\ inv[1].serverTools = ServerTools(last)
               /\ inv[1].clientTools = ClientTools(last)

\* The stream had two tool-requests and the first listed a call the second
\* does not list; the calls of the second are acted on.
C38_Witness ==
    /\ ActsOnCalls(inv[1])
    /\ Len(inv[1].toolRequests) = 2
    /\ \E i \in 1..Len(inv[1].toolRequests[1]) :
          \A j \in 1..Len(inv[1].toolRequests[2]) :
              inv[1].toolRequests[1][i].toolName # inv[1].toolRequests[2][j].toolName

-----------------------------------------------------------------------------
(* Properties of the end of a response body, under SpecText *)

\* The text of the body after its last line feed.
UnterminatedText == Last(Split(sse.chunks[1]))

\* C39: when the body is read to its end, the text after its last line feed
\* is still in the buffer and has given no event: the events yielded are
\* those of the terminated records, however many events the unterminated
\* text would decode to.
C39_UnterminatedDiscarded ==
    inv[1].pc = "done" =>
        /\ sse.wire = <<>>
        /\ sse.buffer = UnterminatedText
        /\ Len(inv[1].out) = Len(RecordEvents(sse.events))
        /\ Len(LinesEvents(<<UnterminatedText>>)) = 1 =>
              inv[1].out \o LinesEvents(<<UnterminatedText>>) # RecordEvents(sse.events)

\* The body ended with a whole record of a finish event that lacked its line
\* feed; the round trip ended after a terminated record's event and never
\* yielded a finish.
C39_Witness ==
    /\ inv[1].pc = "done"
    /\ LinesEvents(<<sse.buffer>>) = <<FinishEvent("stop")>>
    /\ inv[1].out = <<TextDeltaEvent>>
    /\ inv[1].forwardedFinish = 0

-----------------------------------------------------------------------------
(* Properties of a stopped flight, under SpecSession *)

\* C40: once the signal of a flight is aborted, by a stop message or by a
\* later trigger/continue message, no step passes an event to the flight's
\* onEvent, the finish{finishReason: stop} its generator yields included,
\* and no step calls its onFinish.
C40_StoppedIsSilent ==
    [][\A f \in Flights :
          inv[f].aborted =>
              /\ sink'[f] = sink[f]
              /\ onFinishCalls'[f] = onFinishCalls[f]]_vars

\* The only flight was stopped while it ran; its generator ended with the
\* finish{finishReason: stop}, which its sink never received.
C40_Witness ==
    /\ nFlights = 1
    /\ inv[1].aborted /\ inv[1].pc = "done" /\ inv[1].exit = "stop"
    /\ inv[1].out # <<>> /\ inv[1].out[Len(inv[1].out)] = StopFinish
    /\ Len(sink[1]) = Len(inv[1].out) - 1
    /\ Len(sink[1]) > 0
    /\ onFinishCalls[1] = 0

====
